---- MODULE Spec2Model ----
(***************************************************************************)
(* CPE candidate generation for Java and RPM packages                      *)
(* (syft/pkg/cataloger/common/cpe/java.go).                                *)
(*                                                                         *)
(* The package is a collection of pure functions over package metadata.    *)
(* The state of the model is the call in progress: the function called     *)
(* (op), its argument (arg) and what it returned (ret); op = "none"        *)
(* between calls.  Every Call action is one function of the source applied *)
(* to an input drawn from a bounded pool.                                  *)
(*                                                                         *)
(* A Go string is a sequence of one-character strings, so that prefix      *)
(* tests, trimming, splitting and case folding are computed, not assumed.  *)
(* A nil-able pointer (PomProperties, Manifest) is a sequence of length 0  *)
(* (nil) or 1.  A *fieldCandidateSet is a record [nil, set].               *)
(***************************************************************************)
EXTENDS Naturals, Sequences, FiniteSets

VARIABLES op, arg, ret

vars == <<op, arg, ret>>

(***************************************************************************)
(* Bounds of the input pools.                                              *)
(***************************************************************************)
MaxSections == 1
MaxGroupIDs == 2

(***************************************************************************)
(* Go strings package, on sequences of characters.                         *)
(***************************************************************************)
Range(s) == {s[i] : i \in DOMAIN s}

RECURSIVE Flatten(_)
Flatten(ss) == IF ss = <<>> THEN <<>> ELSE Head(ss) \o Flatten(Tail(ss))

MinOf(S) == CHOOSE x \in S : \A y \in S : x <= y

MaxOf(S) == CHOOSE x \in S : \A y \in S : y <= x

WhiteSpace == {" ", "\t", "\n", "\r"}

UpperCase == <<"A", "B", "C", "D", "E", "F", "G", "H", "I", "J", "K", "L", "M",
               "N", "O", "P", "Q", "R", "S", "T", "U", "V", "W", "X", "Y", "Z">>

LowerCase == <<"a", "b", "c", "d", "e", "f", "g", "h", "i", "j", "k", "l", "m",
               "n", "o", "p", "q", "r", "s", "t", "u", "v", "w", "x", "y", "z">>

HasPrefix(s, prefix) ==
    /\ Len(prefix) <= Len(s)
    /\ SubSeq(s, 1, Len(prefix)) = prefix

HasSuffix(s, suffix) ==
    /\ Len(suffix) <= Len(s)
    /\ SubSeq(s, Len(s) - Len(suffix) + 1, Len(s)) = suffix

Contains(s, substr) ==
    \E i \in 1..(Len(s) + 1) :
        /\ i + Len(substr) <= Len(s) + 1
        /\ SubSeq(s, i, i + Len(substr) - 1) = substr

TrimSpace(s) ==
    LET idx == {i \in 1..Len(s) : s[i] \notin WhiteSpace}
    IN  IF idx = {} THEN <<>> ELSE SubSeq(s, MinOf(idx), MaxOf(idx))

ToLowerChar(c) ==
    IF \E i \in 1..Len(UpperCase) : UpperCase[i] = c
    THEN LowerCase[CHOOSE i \in 1..Len(UpperCase) : UpperCase[i] = c]
    ELSE c

ToLower(s) == [i \in 1..Len(s) |-> ToLowerChar(s[i])]

RECURSIVE Split(_, _)
Split(s, sep) ==
    LET idx == {i \in 1..Len(s) : s[i] = sep}
    IN  IF idx = {} THEN <<s>>
        ELSE <<SubSeq(s, 1, MinOf(idx) - 1)>>
             \o Split(SubSeq(s, MinOf(idx) + 1, Len(s)), sep)

RECURSIVE Join(_, _)
Join(parts, sep) ==
    IF parts = <<>> THEN <<>>
    ELSE IF Len(parts) = 1 THEN parts[1]
    ELSE parts[1] \o <<sep>> \o Join(Tail(parts), sep)

(***************************************************************************)
(* Package-level tables (java.go:11-38).                                   *)
(***************************************************************************)
forbiddenProductGroupIDFieldsNoClient ==
    { <<"p", "l", "u", "g", "i", "n">>,
      <<"p", "l", "u", "g", "i", "n", "s">> }

forbiddenProductGroupIDFields ==
    { <<"p", "l", "u", "g", "i", "n">>,
      <<"p", "l", "u", "g", "i", "n", "s">>,
      <<"c", "l", "i", "e", "n", "t">> }

forbiddenVendorGroupIDFieldsNoPlural == { <<"p", "l", "u", "g", "i", "n">> }

forbiddenVendorGroupIDFields ==
    { <<"p", "l", "u", "g", "i", "n">>,
      <<"p", "l", "u", "g", "i", "n", "s">> }

domains == << <<"c", "o", "m">>, <<"o", "r", "g">>, <<"n", "e", "t">>, <<"i", "o">> >>

javaManifestGroupIDFields ==
    << "Extension-Name", "Automatic-Module-Name", "Specification-Vendor",
       "Implementation-Vendor", "Bundle-SymbolicName", "Implementation-Vendor-Id",
       "Package", "Implementation-Title", "Main-Class", "Bundle-Activator" >>

javaManifestNameFields == << "Specification-Vendor", "Implementation-Vendor" >>

(***************************************************************************)
(* Helpers of the repository that java.go calls.                           *)
(***************************************************************************)
\* internal.HasAnyOfPrefixes(input, prefixes...): input has one of the
\* prefixes as a prefix.
HasAnyOfPrefixes(input, prefixes) ==
    \E i \in 1..Len(prefixes) : HasPrefix(input, prefixes[i])

\* normalizeName: trimmed, lower case, blanks replaced by the separator.
normalizeName(name) ==
    LET t == ToLower(TrimSpace(name))
    IN  [i \in 1..Len(t) |-> IF t[i] = " " THEN "_" ELSE t[i]]

\* normalizeTitle: trimmed, case folded.
normalizeTitle(name) == ToLower(TrimSpace(name))

TrimTrailingHyphens(s) ==
    LET idx == {i \in 1..Len(s) : s[i] # "-"}
    IN  IF idx = {} THEN <<>> ELSE SubSeq(s, 1, MaxOf(idx))

\* generateSubSelections: the token, then the prefixes obtained by dropping
\* trailing hyphen-delimited segments one at a time, trailing separators
\* stripped, empty forms left out.
generateSubSelections(field) ==
    LET parts == Split(field, "-")
        n     == Len(parts)
        short(k) == TrimTrailingHyphens(Join(SubSeq(parts, 1, k), "-"))
    IN  <<field>>
        \o Flatten([j \in 1..(n - 1) |->
                        IF short(n - j) = <<>> THEN <<>> ELSE <<short(n - j)>>])

\* fieldCandidate{value, disallowSubSelections: true}
fieldCandidate(value) == [value |-> value, disallowSubSelections |-> TRUE]

\* fieldCandidateSet: insertion ordered, keyed by value.
newCPRFieldCandidateSet == <<>>

add(set, c) ==
    IF \E i \in 1..Len(set) : set[i].value = c.value
    THEN [i \in 1..Len(set) |->
            IF set[i].value = c.value
            THEN [set[i] EXCEPT !.disallowSubSelections = @ \/ c.disallowSubSelections]
            ELSE set[i]]
    ELSE Append(set, c)

RECURSIVE addAll(_, _)
addAll(set, cs) ==
    IF cs = <<>> THEN set ELSE addAll(add(set, Head(cs)), Tail(cs))

values(set) == [i \in 1..Len(set) |-> set[i].value]

\* *fieldCandidateSet
Ptr(set) == [nil |-> FALSE, set |-> set]

NilPtr == [nil |-> TRUE, set |-> <<>>]

newCPRFieldCandidateFromSets(sets) ==
    Ptr(addAll(newCPRFieldCandidateSet,
               Flatten([i \in 1..Len(sets) |-> sets[i].set])))

(***************************************************************************)
(* java.go                                                                 *)
(***************************************************************************)
IsAlphaNumeric(c) ==
    \/ c \in Range(UpperCase)
    \/ c \in Range(LowerCase)
    \/ c \in {"0", "1", "2", "3", "4", "5", "6", "7", "8", "9"}

\* startsWithDomain, were the prefix required to end at a boundary.
startsWithDomainAtBoundary(value) ==
    \E i \in 1..Len(domains) :
        /\ HasPrefix(value, domains[i])
        /\ \/ Len(value) = Len(domains[i])
           \/ ~IsAlphaNumeric(value[Len(domains[i]) + 1])

startsWithDomain(value) == HasAnyOfPrefixes(value, domains)

notStartsWithDomain(value) == ~startsWithDomain(value)

\* The values the two manifest loops visit: for each field name, the main
\* section, then every named section.
manifestValues(manifest, names) ==
    Flatten([n \in 1..Len(names) |->
        (IF names[n] \in DOMAIN manifest.Main
         THEN <<manifest.Main[names[n]]>> ELSE <<>>)
        \o Flatten([s \in 1..Len(manifest.NamedSections) |->
              IF names[n] \in DOMAIN manifest.NamedSections[s]
              THEN <<manifest.NamedSections[s][names[n]]>> ELSE <<>>])])

groupIDsFromJavaManifestUnfiltered(manifest) ==
    IF manifest = <<>> THEN <<>>
    ELSE manifestValues(manifest[1], javaManifestGroupIDFields)

groupIDsFromJavaManifest(manifest) ==
    IF manifest = <<>> THEN <<>>
    ELSE SelectSeq(manifestValues(manifest[1], javaManifestGroupIDFields),
                   startsWithDomain)

\* The values vendorsFromJavaManifestNames passes on to vendors.add.
manifestNameValues(p) ==
    IF p.kind # "java" THEN <<>>
    ELSE IF p.Manifest = <<>> THEN <<>>
    ELSE SelectSeq(manifestValues(p.Manifest[1], javaManifestNameFields),
                   notStartsWithDomain)

vendorsFromJavaManifestNames(p) ==
    LET vs == manifestNameValues(p)
    IN  Ptr(addAll(newCPRFieldCandidateSet,
                   [i \in 1..Len(vs) |-> fieldCandidate(normalizeName(vs[i]))]))

vendorFieldsOfGroupID(groupID) ==
    LET fields == Split(groupID, ".")
    IN  Flatten([i \in 1..Len(fields) |->
            LET field == TrimSpace(fields[i])
            IN  IF Len(field) = 0 THEN <<>>
                ELSE IF ToLower(field) \in forbiddenVendorGroupIDFields THEN <<>>
                ELSE IF i - 1 = 0 THEN <<>>
                ELSE generateSubSelections(field)])

vendorsFromGroupIDs(groupIDs) ==
    LET vs == Flatten([g \in 1..Len(groupIDs) |-> vendorFieldsOfGroupID(groupIDs[g])])
    IN  Ptr(addAll(newCPRFieldCandidateSet,
                   [i \in 1..Len(vs) |-> fieldCandidate(vs[i])]))

S_plugin == <<"p", "l", "u", "g", "i", "n">>

\* The body of the inner loop (java.go:126-149): the fields of one group ID
\* that are added to products, in order.  Go's index i is i - 1 here.
productFieldsOfGroupIDFromSecond(artifactID, groupID) ==
    LET fields   == Split(groupID, ".")
        isPlugin == Contains(artifactID, S_plugin) \/ Contains(groupID, S_plugin)
    IN  Flatten([i \in 1..Len(fields) |->
            LET field == TrimSpace(fields[i])
                couldBeProjectName ==
                    HasPrefix(artifactID, field) \/ HasSuffix(artifactID, field)
            IN  IF Len(field) = 0 THEN <<>>
                ELSE IF ToLower(field) \in forbiddenProductGroupIDFields THEN <<>>
                ELSE IF i - 1 < 1 THEN <<>>
                ELSE IF artifactID = <<>> \/ (couldBeProjectName /\ ~isPlugin)
                     THEN <<field>> ELSE <<>>])

productFieldsOfGroupID(artifactID, groupID) ==
    LET fields   == Split(groupID, ".")
        isPlugin == Contains(artifactID, S_plugin) \/ Contains(groupID, S_plugin)
    IN  Flatten([i \in 1..Len(fields) |->
            LET field == TrimSpace(fields[i])
                couldBeProjectName ==
                    HasPrefix(artifactID, field) \/ HasSuffix(artifactID, field)
            IN  IF Len(field) = 0 THEN <<>>
                ELSE IF ToLower(field) \in forbiddenProductGroupIDFields THEN <<>>
                ELSE IF i - 1 <= 1 THEN <<>>
                ELSE IF artifactID = <<>> \/ (couldBeProjectName /\ ~isPlugin)
                     THEN <<field>> ELSE <<>>])

\* The calls of products.Add, in order (java.go:118-150).
productAdds(artifactID, groupIDs) ==
    (IF artifactID # <<>> THEN <<artifactID>> ELSE <<>>)
    \o Flatten([g \in 1..Len(groupIDs) |->
                    productFieldsOfGroupID(artifactID, groupIDs[g])])

\* strset.Set.List ranges over a Go map: every order of the members is a
\* possible result.
strsetList(S) ==
    {l \in [1..Cardinality(S) -> S] : \A x \in S : \E i \in 1..Cardinality(S) : l[i] = x}

\* The possible results of productsFromArtifactAndGroupIDs.
productsFromArtifactAndGroupIDs(artifactID, groupIDs) ==
    strsetList(Range(productAdds(artifactID, groupIDs)))

LooksLikeGroupID(id) == startsWithDomain(id) /\ Len(Split(id, ".")) > 1

artifactIDFromJavaPackage(p) ==
    IF p.kind # "java" THEN <<>>
    ELSE IF p.PomProperties = <<>> THEN <<>>
    ELSE LET artifactID == TrimSpace(p.PomProperties[1].ArtifactID)
         IN  IF LooksLikeGroupID(artifactID) THEN <<>> ELSE artifactID

groupIDsFromPomProperties(properties) ==
    IF properties = <<>> THEN <<>>
    ELSE (IF startsWithDomain(properties[1].GroupID)
          THEN <<TrimSpace(properties[1].GroupID)>> ELSE <<>>)
         \o (IF LooksLikeGroupID(properties[1].ArtifactID)
             THEN <<TrimSpace(properties[1].ArtifactID)>> ELSE <<>>)

groupIDsFromJavaPackage(p) ==
    IF p.kind # "java" THEN <<>>
    ELSE groupIDsFromPomProperties(p.PomProperties)
         \o groupIDsFromJavaManifest(p.Manifest)

\* The possible results of candidateProductsForJava.
candidateProductsForJava(p) ==
    productsFromArtifactAndGroupIDs(artifactIDFromJavaPackage(p),
                                    groupIDsFromJavaPackage(p))

candidateVendorsForJava(p) ==
    LET gidVendors  == vendorsFromGroupIDs(groupIDsFromJavaPackage(p))
        nameVendors == vendorsFromJavaManifestNames(p)
    IN  newCPRFieldCandidateFromSets(<<gidVendors, nameVendors>>)

candidateVendorsForRPM(p) ==
    IF p.kind # "rpm" THEN NilPtr
    ELSE IF p.Vendor # <<>>
         THEN Ptr(add(newCPRFieldCandidateSet, fieldCandidate(normalizeTitle(p.Vendor))))
         ELSE Ptr(newCPRFieldCandidateSet)

(***************************************************************************)
(* Input pools.  Strings are written out as character sequences.           *)
(***************************************************************************)
\* ""
S_empty == <<>>

\* " "
S_blank == <<" ">>

\* "org.apache.commons"
S_org_apache_commons == <<"o", "r", "g", ".", "a", "p", "a", "c", "h", "e", ".", "c", "o", "m", "m", "o", "n", "s">>

\* "organization"
S_organization == <<"o", "r", "g", "a", "n", "i", "z", "a", "t", "i", "o", "n">>

\* "company"
S_company == <<"c", "o", "m", "p", "a", "n", "y">>

\* "com.example"
S_com_example == <<"c", "o", "m", ".", "e", "x", "a", "m", "p", "l", "e">>

\* "apache"
S_apache == <<"a", "p", "a", "c", "h", "e">>

\* "Com.example"
S_Com_example == <<"C", "o", "m", ".", "e", "x", "a", "m", "p", "l", "e">>

\* "io"
S_io == <<"i", "o">>

\* "netty"
S_netty == <<"n", "e", "t", "t", "y">>

\* "org"
S_org == <<"o", "r", "g">>

\* "commons.io"
S_commons_io == <<"c", "o", "m", "m", "o", "n", "s", ".", "i", "o">>

\* "git"
S_git == <<"g", "i", "t">>

\* " com.acme"
S_sp_com_acme == <<" ", "c", "o", "m", ".", "a", "c", "m", "e">>

\* "com.acme "
S_com_acme_sp == <<"c", "o", "m", ".", "a", "c", "m", "e", " ">>

\* "com.acme"
S_com_acme == <<"c", "o", "m", ".", "a", "c", "m", "e">>

\* "acme"
S_acme == <<"a", "c", "m", "e">>

\* " org.acme.git"
S_sp_org_acme_git == <<" ", "o", "r", "g", ".", "a", "c", "m", "e", ".", "g", "i", "t">>

\* "Acme Corp"
S_Acme_Corp == <<"A", "c", "m", "e", " ", "C", "o", "r", "p">>

\* "acme_corp"
S_acme_corp == <<"a", "c", "m", "e", "_", "c", "o", "r", "p">>

\* "Red Hat, Inc."
S_Red_Hat_Inc == <<"R", "e", "d", " ", "H", "a", "t", ",", " ", "I", "n", "c", ".">>

\* "org.jenkins-ci.plugins"
S_org_jenkins_ci_plugins == <<"o", "r", "g", ".", "j", "e", "n", "k", "i", "n", "s", "-", "c", "i", ".", "p", "l", "u", "g", "i", "n", "s">>

\* "jenkins-ci"
S_jenkins_ci == <<"j", "e", "n", "k", "i", "n", "s", "-", "c", "i">>

\* "jenkins"
S_jenkins == <<"j", "e", "n", "k", "i", "n", "s">>

\* "plugins"
S_plugins == <<"p", "l", "u", "g", "i", "n", "s">>

\* "org.jenkins-ci.main.jenkins"
S_org_jenkins_ci_main_jenkins == <<"o", "r", "g", ".", "j", "e", "n", "k", "i", "n", "s", "-", "c", "i", ".", "m", "a", "i", "n", ".", "j", "e", "n", "k", "i", "n", "s">>

\* "jenkins-core"
S_jenkins_core == <<"j", "e", "n", "k", "i", "n", "s", "-", "c", "o", "r", "e">>

\* "org.acme.client"
S_org_acme_client == <<"o", "r", "g", ".", "a", "c", "m", "e", ".", "c", "l", "i", "e", "n", "t">>

\* "client"
S_client == <<"c", "l", "i", "e", "n", "t">>

\* "org.acme.git"
S_org_acme_git == <<"o", "r", "g", ".", "a", "c", "m", "e", ".", "g", "i", "t">>

\* "org.tools.plugins.git"
S_org_tools_plugins_git == <<"o", "r", "g", ".", "t", "o", "o", "l", "s", ".", "p", "l", "u", "g", "i", "n", "s", ".", "g", "i", "t">>

\* "git-client"
S_git_client == <<"g", "i", "t", "-", "c", "l", "i", "e", "n", "t">>

\* "org.plugin-tools.acme"
S_org_plugin_tools_acme == <<"o", "r", "g", ".", "p", "l", "u", "g", "i", "n", "-", "t", "o", "o", "l", "s", ".", "a", "c", "m", "e">>

\* "com.acme. Core ..git"
S_com_acme_Core_git == <<"c", "o", "m", ".", "a", "c", "m", "e", ".", " ", "C", "o", "r", "e", " ", ".", ".", "g", "i", "t">>

\* "org.Plugins.acme"
S_org_Plugins_acme == <<"o", "r", "g", ".", "P", "l", "u", "g", "i", "n", "s", ".", "a", "c", "m", "e">>

\* "Core"
S_Core == <<"C", "o", "r", "e">>

DomainValues ==
    { S_empty, S_org_apache_commons, S_organization, S_company, S_com_example,
      S_apache, S_Com_example, S_io, S_netty, S_org, S_commons_io, S_sp_com_acme,
      S_git }

PomArtifactIDs ==
    { S_empty, S_git, S_commons_io, S_sp_com_acme, S_com_acme_sp, S_com_acme,
      S_org, S_jenkins_core }

PomGroupIDs ==
    { S_empty, S_org_jenkins_ci_plugins, S_com_acme_sp, S_acme, S_sp_org_acme_git }

\* *pkg.PomProperties: nil or one record.
PomOpts ==
    { <<>> } \cup
    { <<[GroupID |-> g, ArtifactID |-> a]>> : g \in PomGroupIDs, a \in PomArtifactIDs }

ManifestKeys == { "Specification-Vendor", "Implementation-Vendor", "Extension-Name" }

ManifestValues == { S_empty, S_blank, S_Acme_Corp, S_com_acme, S_sp_com_acme }

MainMaps == UNION { [D -> ManifestValues] : D \in SUBSET ManifestKeys }

SectionMaps ==
    UNION { [D -> ManifestValues] : D \in { {}, {"Implementation-Vendor"} } }

SectionLists == UNION { [1..n -> SectionMaps] : n \in 0..MaxSections }

Manifests ==
    { [Main |-> m, NamedSections |-> s] : m \in MainMaps, s \in SectionLists }

\* *pkg.JavaManifest: nil or one record.
ManifestOpts == { <<>> } \cup { <<m>> : m \in Manifests }

SmallManifestOpts ==
    { <<>> } \cup
    { <<m>> : m \in { x \in Manifests : /\ x.NamedSections = <<>>
                                       /\ Cardinality(DOMAIN x.Main) <= 1 } }

RpmVendors == { S_empty, S_blank, S_Red_Hat_Inc, S_acme }

JavaPackage(pom, manifest) ==
    [kind |-> "java", PomProperties |-> pom, Manifest |-> manifest]

RpmPackage(vendor) == [kind |-> "rpm", Vendor |-> vendor]

\* p.Metadata is nil or of another type.
OtherPackage == [kind |-> "other"]

Packages ==
    { OtherPackage }
    \cup { RpmPackage(v) : v \in RpmVendors }
    \cup { JavaPackage(pom, m) : pom \in PomOpts, m \in SmallManifestOpts }

ManifestPackages ==
    Packages \cup { JavaPackage(<<>>, m) : m \in ManifestOpts }

GroupIDPool ==
    { S_org_jenkins_ci_plugins, S_org_jenkins_ci_main_jenkins, S_org_acme_client,
      S_org_acme_git, S_org_tools_plugins_git, S_org_plugin_tools_acme,
      S_com_acme_Core_git, S_org_Plugins_acme }

GroupIDLists == UNION { [1..n -> GroupIDPool] : n \in 0..MaxGroupIDs }

ProductArtifactIDs ==
    { S_empty, S_git, S_jenkins_core, S_git_client, S_client, S_Core }

(***************************************************************************)
(* The calls.                                                              *)
(***************************************************************************)
Init ==
    /\ op = "none"
    /\ arg = <<>>
    /\ ret = <<>>

CallStartsWithDomain ==
    \E value \in DomainValues :
        /\ op = "none"
        /\ op' = "startsWithDomain"
        /\ arg' = value
        /\ ret' = startsWithDomain(value)

CallArtifactIDFromJavaPackage ==
    \E p \in Packages :
        /\ op = "none"
        /\ op' = "artifactIDFromJavaPackage"
        /\ arg' = p
        /\ ret' = artifactIDFromJavaPackage(p)

CallGroupIDsFromPomProperties ==
    \E properties \in PomOpts :
        /\ op = "none"
        /\ op' = "groupIDsFromPomProperties"
        /\ arg' = properties
        /\ ret' = groupIDsFromPomProperties(properties)

CallGroupIDsFromJavaManifest ==
    \E manifest \in ManifestOpts :
        /\ op = "none"
        /\ op' = "groupIDsFromJavaManifest"
        /\ arg' = manifest
        /\ ret' = groupIDsFromJavaManifest(manifest)

CallGroupIDsFromJavaPackage ==
    \E p \in Packages :
        /\ op = "none"
        /\ op' = "groupIDsFromJavaPackage"
        /\ arg' = p
        /\ ret' = groupIDsFromJavaPackage(p)

CallVendorsFromJavaManifestNames ==
    \E p \in ManifestPackages :
        /\ op = "none"
        /\ op' = "vendorsFromJavaManifestNames"
        /\ arg' = p
        /\ ret' = vendorsFromJavaManifestNames(p)

CallVendorsFromGroupIDs ==
    \E groupIDs \in GroupIDLists :
        /\ op = "none"
        /\ op' = "vendorsFromGroupIDs"
        /\ arg' = groupIDs
        /\ ret' = vendorsFromGroupIDs(groupIDs)

CallProductsFromArtifactAndGroupIDs ==
    \E artifactID \in ProductArtifactIDs, groupIDs \in GroupIDLists :
        /\ op = "none"
        /\ op' = "productsFromArtifactAndGroupIDs"
        /\ arg' = [artifactID |-> artifactID, groupIDs |-> groupIDs]
        /\ ret' \in productsFromArtifactAndGroupIDs(artifactID, groupIDs)

CallCandidateProductsForJava ==
    \E p \in Packages :
        /\ op = "none"
        /\ op' = "candidateProductsForJava"
        /\ arg' = p
        /\ ret' \in candidateProductsForJava(p)

CallCandidateVendorsForJava ==
    \E p \in Packages :
        /\ op = "none"
        /\ op' = "candidateVendorsForJava"
        /\ arg' = p
        /\ ret' = candidateVendorsForJava(p)

CallCandidateVendorsForRPM ==
    \E p \in Packages :
        /\ op = "none"
        /\ op' = "candidateVendorsForRPM"
        /\ arg' = p
        /\ ret' = candidateVendorsForRPM(p)

\* The caller takes the result; the next call can be made.
Return ==
    /\ op # "none"
    /\ op' = "none"
    /\ arg' = <<>>
    /\ ret' = <<>>

Next ==
    \/ CallStartsWithDomain
    \/ CallArtifactIDFromJavaPackage
    \/ CallGroupIDsFromPomProperties
    \/ CallGroupIDsFromJavaManifest
    \/ CallGroupIDsFromJavaPackage
    \/ CallVendorsFromJavaManifestNames
    \/ CallVendorsFromGroupIDs
    \/ CallProductsFromArtifactAndGroupIDs
    \/ CallCandidateProductsForJava
    \/ CallCandidateVendorsForJava
    \/ CallCandidateVendorsForRPM
    \/ Return

Spec == Init /\ [][Next]_vars

(***************************************************************************)
(* Properties.                                                             *)
(***************************************************************************)
VendorFieldNames == { "Specification-Vendor", "Implementation-Vendor" }

\* The values a manifest holds under the two vendor fields, in the main
\* mapping or any named section.
VendorFieldValues(m) ==
    { m.Main[k] : k \in DOMAIN m.Main \cap VendorFieldNames }
    \cup UNION { { m.NamedSections[s][k] :
                     k \in DOMAIN m.NamedSections[s] \cap VendorFieldNames } :
                 s \in 1..Len(m.NamedSections) }

\* seq without the repeated occurrences of a value, first occurrences kept.
RECURSIVE FirstOccurrences(_)
FirstOccurrences(seq) ==
    IF seq = <<>> THEN <<>>
    ELSE LET front == FirstOccurrences(SubSeq(seq, 1, Len(seq) - 1))
             last  == seq[Len(seq)]
         IN  IF last \in Range(front) THEN front ELSE Append(front, last)

PositionOf(x, seq) == MinOf({i \in 1..Len(seq) : seq[i] = x})

\* C1: the results of candidateVendorsForJava, candidateVendorsForRPM and
\* candidateProductsForJava never contain the empty string.
C1_NoEmptyCandidate ==
    /\ op \in {"candidateVendorsForJava", "candidateVendorsForRPM"}
         => (ret.nil \/ <<>> \notin Range(values(ret.set)))
    /\ op = "candidateProductsForJava" => <<>> \notin Range(ret)

C3_InsertionOrder ==
    op = "productsFromArtifactAndGroupIDs" =>
        ret = FirstOccurrences(productAdds(arg.artifactID, arg.groupIDs))

\* C4: whenever artifactIDFromJavaPackage returns empty for a non-blank
\* ArtifactID (it looks like a group ID), groupIDsFromPomProperties emits
\* the trimmed ArtifactID as a group ID; "commons.io" is reclassified.
C4_MisplacedReclassified ==
    (/\ op = "artifactIDFromJavaPackage"
     /\ arg.kind = "java"
     /\ arg.PomProperties # <<>>)
    => LET artifactID == TrimSpace(arg.PomProperties[1].ArtifactID)
           groupIDs   == groupIDsFromPomProperties(arg.PomProperties)
       IN  /\ (ret = <<>> /\ artifactID # <<>>) => artifactID \in Range(groupIDs)
           /\ artifactID = S_commons_io => (ret = <<>> /\ S_commons_io \in Range(groupIDs))

\* C5: every value under Specification-Vendor or Implementation-Vendor is
\* either emitted as a group ID by groupIDsFromJavaManifest or added, name
\* normalized, as a vendor candidate by vendorsFromJavaManifestNames, never
\* both and never neither; "Acme Corp" takes the name path and "com.acme"
\* the group-ID path.
C5_ExclusiveRouting ==
    (/\ op = "vendorsFromJavaManifestNames"
     /\ arg.kind = "java"
     /\ arg.Manifest # <<>>)
    => \A v \in VendorFieldValues(arg.Manifest[1]) :
          LET asGroupID == v \in Range(groupIDsFromJavaManifest(arg.Manifest))
              asName    == v \in Range(manifestNameValues(arg))
          IN  /\ asGroupID # asName
              /\ asName => normalizeName(v) \in Range(values(ret.set))
              /\ v = S_Acme_Corp => (asName /\ S_acme_corp \in Range(values(ret.set)))
              /\ v = S_com_acme => (asGroupID /\ ~asName)

C5_Witness ==
    /\ op = "vendorsFromJavaManifestNames"
    /\ arg.kind = "java"
    /\ arg.Manifest # <<>>
    /\ DOMAIN arg.Manifest[1].Main = ManifestKeys
    /\ arg.Manifest[1].Main["Implementation-Vendor"] = S_Acme_Corp
    /\ arg.Manifest[1].Main["Specification-Vendor"] = S_com_acme
    /\ values(ret.set) = <<S_acme_corp>>

\* C6: for the single group ID "org.jenkins-ci.plugins" vendorsFromGroupIDs
\* yields "jenkins-ci" and then "jenkins", and neither "org" nor "plugins";
\* every candidate it emits has disallowSubSelections set.
C6_JenkinsVendors ==
    op = "vendorsFromGroupIDs" =>
        /\ ~ret.nil
        /\ \A i \in 1..Len(ret.set) : ret.set[i].disallowSubSelections
        /\ arg = <<S_org_jenkins_ci_plugins>> =>
              LET vs == values(ret.set)
              IN  /\ S_jenkins_ci \in Range(vs)
                  /\ S_jenkins \in Range(vs)
                  /\ PositionOf(S_jenkins_ci, vs) < PositionOf(S_jenkins, vs)
                  /\ S_org \notin Range(vs)
                  /\ S_plugins \notin Range(vs)

C6_Witness ==
    /\ op = "vendorsFromGroupIDs"
    /\ arg = <<S_org_jenkins_ci_plugins>>
    /\ Len(ret.set) = 2

C8_FailSoftEmpty ==
    /\ (op = "candidateVendorsForJava" /\ arg.kind # "java")
          => (~ret.nil /\ ret.set = <<>>)
    /\ (op = "candidateProductsForJava" /\ arg.kind # "java") => ret = <<>>
    /\ (op = "candidateVendorsForRPM" /\ arg.kind # "rpm")
          => (~ret.nil /\ ret.set = <<>>)

C10_NoForbiddenVendor ==
    op = "vendorsFromGroupIDs" =>
        \A i \in 1..Len(ret.set) :
            ToLower(ret.set[i].value) \notin {S_plugin, S_plugins}

====
